---- MODULE Spec2Model ----
(***************************************************************************)
(* Model of app.py: a Streamlit dashboard over an uploaded stock-price CSV. *)
(*                                                                         *)
(* The script is re-run from top to bottom on every interaction (a file    *)
(* upload or a checkbox change).  One run reads the three sidebar          *)
(* checkboxes and the uploader, calls load_data (memoized by               *)
(* st.cache_data) and renders the page.                                    *)
(*                                                                         *)
(* Numbers.  The raw numeric columns Open/High/Low/Close/Volume/VWAP hold  *)
(* integers.  Every float the pipeline derives is an exact rational        *)
(* [n, d] in lowest terms with d > 0; NaN is [n |-> 0, d |-> 0] and the    *)
(* infinities are [n |-> +-1, d |-> 0].  A standard deviation is kept as   *)
(* Sqrt(v) = [radicand |-> v], the exact square root of the rational v.    *)
(* Sequences are 1-indexed: row i (0-indexed) of a table is position i+1.  *)
(***************************************************************************)
EXTENDS Integers, Sequences, FiniteSets, TLC

VARIABLES uploaded_file, show_eda, show_visuals, show_metrics,
          cache, page, df, calls

vars == <<uploaded_file, show_eda, show_visuals, show_metrics,
          cache, page, df, calls>>

----------------------------------------------------------------------------
(* Evaluation                                                               *)

\* The({e : x \in {v}}) is e with x bound to the value of v: v is evaluated
\* once, however often e uses x.
The(S) == CHOOSE x \in S : TRUE

\* the sequence s[1..n], every element evaluated once
Eval(s, n) == SubSeq(s, 1, n)

\* the table (function on column names) t, every column evaluated once
Table(t) == t @@ <<>>

----------------------------------------------------------------------------
(* Exact arithmetic standing for the float columns                          *)

Abs(x) == IF x < 0 THEN -x ELSE x

RECURSIVE Gcd(_, _)
Gcd(a0, b0) == The({ IF b = 0 THEN a ELSE Gcd(b, a % b) : a \in {a0}, b \in {b0} })

NaN == [n |-> 0, d |-> 0]
PosInf == [n |-> 1, d |-> 0]
NegInf == [n |-> -1, d |-> 0]

IsNaN(x) == x.d = 0 /\ x.n = 0
IsFinite(x) == x.d > 0

\* the rational num/den (den > 0) in lowest terms
Frac(num0, den0) ==
    The({ The({ [n |-> num \div g, d |-> den \div g] : g \in {Gcd(Abs(num), den)} })
          : num \in {num0}, den \in {den0} })

Rat(k) == [n |-> k, d |-> 1]

\* float division of two integers, as numpy divides: x/0 is +-inf, 0/0 is nan
Div(x0, y0) ==
    The({ IF y = 0 THEN (IF x = 0 THEN NaN ELSE IF x > 0 THEN PosInf ELSE NegInf)
          ELSE IF y > 0 THEN Frac(x, y) ELSE Frac(-x, -y)
          : x \in {x0}, y \in {y0} })

RAdd(x0, y0) ==
    The({ IF IsNaN(x) \/ IsNaN(y) THEN NaN
          ELSE IF ~IsFinite(x) THEN (IF ~IsFinite(y) /\ y.n # x.n THEN NaN ELSE x)
          ELSE IF ~IsFinite(y) THEN y
          ELSE The({ Frac(x.n * (l \div x.d) + y.n * (l \div y.d), l)
                     : l \in {(x.d \div Gcd(x.d, y.d)) * y.d} })
          : x \in {x0}, y \in {y0} })

RSub(x, y0) == The({ RAdd(x, [n |-> -y.n, d |-> y.d]) : y \in {y0} })

RMul(x0, y0) ==
    The({ IF ~IsFinite(x) \/ ~IsFinite(y) THEN NaN
          ELSE The({ Frac((x.n \div g1) * (y.n \div g2), (x.d \div g2) * (y.d \div g1))
                     : g1 \in {Gcd(Abs(x.n), y.d)}, g2 \in {Gcd(Abs(y.n), x.d)} })
          : x \in {x0}, y \in {y0} })

RDivInt(x0, k0) ==
    The({ IF ~IsFinite(x) THEN NaN
          ELSE The({ Frac(x.n \div g, x.d * (k \div g)) : g \in {Gcd(Abs(x.n), k)} })
          : x \in {x0}, k \in {k0} })

Sqrt(v) == [radicand |-> v]

\* sum of the rationals s[lo..hi]
RECURSIVE RSum(_, _, _)
RSum(s, lo0, hi0) ==
    The({ IF lo > hi THEN Rat(0)
          ELSE IF lo = hi THEN s[lo]
          ELSE The({ RAdd(RSum(s, lo, mid), RSum(s, mid + 1, hi))
                     : mid \in {(lo + hi) \div 2} })
          : lo \in {lo0}, hi \in {hi0} })

----------------------------------------------------------------------------
(* pandas / scipy operations used by load_data                              *)

Range(s) == {s[i] : i \in DOMAIN s}

HasCol(t, c) == c \in DOMAIN t

\* number of rows of a table
NRows(t) == Len(t["index"])

\* the table whose rows are the rows of t at the positions keep, in that order
TakeRows(t, keep0) ==
    The({ Table([c \in DOMAIN t |->
                    Eval([j \in 1..Len(keep) |-> t[c][keep[j]]], Len(keep))])
          : keep \in {keep0} })

\* t with column c set to the sequence col (df[c] = col)
SetCol(t, c, col) == (c :> Eval(col, NRows(t))) @@ t

\* pd.read_csv: the columns of the file under a fresh index 0..rows-1
read_csv(file) ==
    ("index" :> Eval([i \in 1..file.rows |-> i - 1], file.rows)) @@ file.data

\* pd.to_datetime on a column of <<year, month, day>> cells
to_datetime(col) ==
    [i \in 1..Len(col) |-> [year |-> col[i][1], month |-> col[i][2], day |-> col[i][3]]]

\* df.dropna(subset=[c]) without inplace=True: the result is thrown away
dropna_not_inplace(t, c) == t

\* df.dropna(subset=[c]): the rows whose cell in column c is present
\* (the index labels of the retained rows are kept)
dropna(t, c) ==
    TakeRows(t, SelectSeq(Eval([i \in 1..NRows(t) |-> i], NRows(t)),
                          LAMBDA i : ~IsNaN(t[c][i])))

\* a.argsort(): positions of a in ascending order of value (ties by position)
argsort(a) ==
    The({ Eval([r \in 1..Len(a) |-> CHOOSE p \in 1..Len(a) : rank[p] = r - 1], Len(a))
          : rank \in {Eval([p \in 1..Len(a) |->
                              Cardinality({q \in 1..Len(a) :
                                  a[q] < a[p] \/ (a[q] = a[p] /\ q < p)})], Len(a))} })

\* limits=[0.01, 0.01], in hundredths
LowLimitPct == 1
UpLimitPct == 1

\* winsorize with limits=[0, 0.01]: the low tail is left alone
winsorize_upper_only(a0) ==
    The({ The({ The({ [i \in 1..n |-> IF i \in upset THEN a[idx[upidx]] ELSE a[i]]
                      : upset \in {{idx[r] : r \in (upidx + 1)..n}} })
                : upidx \in {n - ((n * UpLimitPct) \div 100)} })
          : a \in {a0}, n \in {Len(a0)}, idx \in {argsort(a0)} })

\* winsorize with limits=[0.01, 0]: the high tail is left alone
winsorize_lower_only(a0) ==
    The({ The({ The({ [i \in 1..n |-> IF i \in lowset THEN a[idx[lowidx + 1]] ELSE a[i]]
                      : lowset \in {{idx[r] : r \in 1..lowidx}} })
                : lowidx \in {(LowLimitPct * n) \div 100} })
          : a \in {a0}, n \in {Len(a0)}, idx \in {argsort(a0)} })

\* scipy.stats.mstats.winsorize(a, limits=[low, up]) on a non-empty 1-D array
\* without missing values (inclusive limits):
\*   idx = a.argsort()
\*   lowidx = int(low * n);      a[idx[:lowidx]] = a[idx[lowidx]]
\*   upidx  = n - int(n * up);   a[idx[upidx:]]  = a[idx[upidx - 1]]
winsorize(a0) ==
    The({ The({ The({ The({ [i \in 1..n |-> IF i \in upset THEN a1[idx[upidx]] ELSE a1[i]]
                            : upset \in {{idx[r] : r \in (upidx + 1)..n}} })
                      : a1 \in {Eval([i \in 1..n |->
                                   IF i \in lowset THEN a[idx[lowidx + 1]] ELSE a[i]], n)} })
                : lowidx \in {(LowLimitPct * n) \div 100},
                  upidx \in {n - ((n * UpLimitPct) \div 100)},
                  lowset \in {{idx[r] : r \in 1..((LowLimitPct * n) \div 100)}} })
          : a \in {a0}, n \in {Len(a0)}, idx \in {argsort(a0)} })

\* the ratio to the previous row, without the "- 1"
pct_change_ratio(s) ==
    [i \in 1..Len(s) |-> IF i = 1 THEN NaN ELSE Div(s[i], s[i - 1])]

\* Series.pct_change() of an integer column without missing values
pct_change(s) ==
    [i \in 1..Len(s) |->
        IF i = 1 THEN NaN ELSE RSub(Div(s[i], s[i - 1]), Rat(1))]

\* rolling(window=w, min_periods=1).mean(): the mean of the rows there are
rolling_mean_min_periods_1(s, w) ==
    [i \in 1..Len(s) |->
        The({ IF \E j \in lo..i : ~IsFinite(s[j]) THEN NaN
              ELSE RDivInt(RSum(s, lo, i), i - lo + 1)
              : lo \in {IF i < w THEN 1 ELSE i - w + 1} })]

\* Series.rolling(window=w).mean() of a float column: min_periods = w, so the
\* value is missing until w observations, none of them missing, fill the window
rolling_mean(s, w) ==
    [i \in 1..Len(s) |->
        IF i < w \/ \E j \in (i - w + 1)..i : ~IsFinite(s[j]) THEN NaN
        ELSE RDivInt(RSum(s, i - w + 1, i), w)]

\* the squared deviations of s[lo..hi] from m, 0 elsewhere
SquaredDeviations(s, lo, hi, m) ==
    Eval([j \in 1..hi |-> IF j >= lo THEN RMul(RSub(s[j], m), RSub(s[j], m)) ELSE Rat(0)],
         hi)

\* rolling(window=w).std(ddof=0): the population standard deviation
rolling_std_population(s, w) ==
    [i \in 1..Len(s) |->
        IF i < w \/ \E j \in (i - w + 1)..i : ~IsFinite(s[j]) THEN Sqrt(NaN)
        ELSE The({ Sqrt(RDivInt(RSum(sq, i - w + 1, i), w))
                   : sq \in { The({ SquaredDeviations(s, i - w + 1, i, m)
                                    : m \in {RDivInt(RSum(s, i - w + 1, i), w)} }) } })]

\* Series.rolling(window=w).std(): sample standard deviation (ddof = 1)
rolling_std(s, w) ==
    [i \in 1..Len(s) |->
        IF i < w \/ \E j \in (i - w + 1)..i : ~IsFinite(s[j]) THEN Sqrt(NaN)
        ELSE The({ Sqrt(RDivInt(RSum(sq, i - w + 1, i), w - 1))
                   : sq \in { The({ SquaredDeviations(s, i - w + 1, i, m)
                                    : m \in {RDivInt(RSum(s, i - w + 1, i), w)} }) } })]

AsFloat(s) == [i \in 1..Len(s) |-> Rat(s[i])]

MAWindow5 == 5
MAWindow20 == 20
MAWindow50 == 50
VolWindow == 20

\* load_data runs line by line on r = [ok, df]: ok is FALSE once a line has
\* raised, and df is then the table as that line found it.
Raised(t) == [ok |-> FALSE, df |-> t]
Done(t) == [ok |-> TRUE, df |-> t]

\* line 32: df['Date'] = pd.to_datetime(df['Date'])
step_to_datetime(r0) ==
    The({ IF ~r.ok \/ ~HasCol(r.df, "Date") THEN Raised(r.df)
          ELSE Done(SetCol(r.df, "Date", to_datetime(r.df["Date"])))
          : r \in {r0} })

\* line 33 guarded by "if 'Trades' in df": a file without the column loads
step_dropna_if_present(r0) ==
    The({ IF ~r.ok THEN Raised(r.df)
          ELSE IF ~HasCol(r.df, "Trades") THEN Done(r.df)
          ELSE Done(dropna(r.df, "Trades"))
          : r \in {r0} })

\* line 33: df.dropna(subset=['Trades'], inplace=True); KeyError without the column
step_dropna(r0) ==
    The({ IF ~r.ok \/ ~HasCol(r.df, "Trades") THEN Raised(r.df)
          ELSE Done(dropna(r.df, "Trades"))
          : r \in {r0} })

\* line 34: df['Volume'] = winsorize(df['Volume'], limits=[0.01, 0.01]);
\* on an empty column winsorize indexes idx[0] and raises IndexError
step_winsorize(r0) ==
    The({ IF ~r.ok \/ ~HasCol(r.df, "Volume") \/ NRows(r.df) = 0 THEN Raised(r.df)
          ELSE Done(SetCol(r.df, "Volume", winsorize(r.df["Volume"])))
          : r \in {r0} })

\* line 35: df['Daily_Return'] = df['Close'].pct_change()
step_daily_return(r0) ==
    The({ IF ~r.ok \/ ~HasCol(r.df, "Close") THEN Raised(r.df)
          ELSE Done(SetCol(r.df, "Daily_Return", pct_change(r.df["Close"])))
          : r \in {r0} })

\* lines 36-38: df['MA<w>'] = df['Close'].rolling(window=w).mean()
step_moving_averages(r0) ==
    The({ IF ~r.ok THEN Raised(r.df)
          ELSE Done(SetCol(SetCol(SetCol(r.df,
                        "MA5", rolling_mean(close, MAWindow5)),
                        "MA20", rolling_mean(close, MAWindow20)),
                        "MA50", rolling_mean(close, MAWindow50)))
          : r \in {r0},
            close \in {IF r0.ok THEN Eval(AsFloat(r0.df["Close"]), NRows(r0.df)) ELSE <<>>} })

\* line 39: df['Volume_Change'] = df['Volume'].pct_change()
step_volume_change(r0) ==
    The({ IF ~r.ok THEN Raised(r.df)
          ELSE Done(SetCol(r.df, "Volume_Change", pct_change(r.df["Volume"])))
          : r \in {r0} })

\* line 40: df['High_Low_Difference'] = df['High'] - df['Low']
step_high_low(r0) ==
    The({ IF ~r.ok \/ ~HasCol(r.df, "High") \/ ~HasCol(r.df, "Low") THEN Raised(r.df)
          ELSE Done(SetCol(r.df, "High_Low_Difference",
                           [i \in 1..NRows(r.df) |-> r.df["High"][i] - r.df["Low"][i]]))
          : r \in {r0} })

\* lines 41-42: the 20-row rolling std and mean of Daily_Return
step_rolling_volatility(r0) ==
    The({ IF ~r.ok THEN Raised(r.df)
          ELSE Done(SetCol(SetCol(r.df,
                        "Rolling_Volatility_20", rolling_std(r.df["Daily_Return"], VolWindow)),
                        "Rolling_Mean_20", rolling_mean(r.df["Daily_Return"], VolWindow)))
          : r \in {r0} })

\* line 43: df['Month'] = df['Date'].dt.month
step_month(r0) ==
    The({ IF ~r.ok THEN Raised(r.df)
          ELSE Done(SetCol(r.df, "Month",
                           [i \in 1..NRows(r.df) |-> r.df["Date"][i].month]))
          : r \in {r0} })

\* the body of load_data: [ok, df], ok FALSE when a line raised
load_data(file) ==
    step_month(step_rolling_volatility(step_high_low(step_volume_change(
        step_moving_averages(step_daily_return(step_winsorize(step_dropna(
            step_to_datetime(Done(read_csv(file)))))))))))

----------------------------------------------------------------------------
(* Uploaded files                                                           *)

\* uploaded_file when the uploader is empty (None)
NoFile == [name |-> "None"]

\* the script's df when load_data returned nothing
NoTable == [index |-> <<>>]

RawColumns == {"Date", "Open", "High", "Low", "Close", "Volume", "Trades", "VWAP"}

MaxRows == 52
MaxHundreds == 2
MaxSeed == 1
SessionRows == 3
MaxCalls == 2

\* One daily record of the generated CSVs, row i (0-indexed) under seed s.
\* Seed 0: every Trades present, all Volume values distinct but one outlier of
\* 1000 times the median.  Seeds above 0: Trades missing in a regular pattern
\* and tied Volume values.
CloseAt(i, s) == <<1, 2, 4>>[((i + (i \div 3) * (s + 1) + (i \div 7)) % 3) + 1]
VolumeAt(i, s) ==
    IF i = 3 THEN 1000 * 1105
    ELSE 1000 + ((i * 37) % (IF s = 0 THEN 211 ELSE 11 + s))
TradesAt(i, s) ==
    IF s > 0 /\ i % (s + 2) = s THEN NaN ELSE Rat(50 + i)
DateAt(i) == <<2020 + (i \div 336), 1 + ((i \div 28) % 12), 1 + (i % 28)>>

CellAt(c, i, s) ==
    CASE c = "Date"   -> DateAt(i)
      [] c = "Open"   -> CloseAt(i, s)
      [] c = "High"   -> CloseAt(i, s) + (i % 3)
      [] c = "Low"    -> CloseAt(i, s)
      [] c = "Close"  -> CloseAt(i, s)
      [] c = "Volume" -> VolumeAt(i, s)
      [] c = "Trades" -> TradesAt(i, s)
      [] c = "VWAP"   -> CloseAt(i, s)

\* the CSV named name with the columns cols and rows generated rows
MakeFile(name, cols, rows, s) ==
    [name |-> name, rows |-> rows,
     data |-> Table([c \in cols |-> Eval([i \in 1..rows |-> CellAt(c, i - 1, s)], rows)])]

\* a CSV whose Trades cells are all missing
AllMissing(name, rows) ==
    The({ [f EXCEPT !.data = ("Trades" :> Eval([i \in 1..rows |-> NaN], rows)) @@ f.data]
          : f \in {MakeFile(name, RawColumns, rows, 0)} })

\* files of the interactive session
SessionFiles ==
    { MakeFile("a.csv", RawColumns, SessionRows, 0),
      MakeFile("b.csv", RawColumns, SessionRows, 0),
      MakeFile("a.csv", RawColumns, SessionRows, 1),
      MakeFile("a.csv", RawColumns \ {"Trades"}, SessionRows, 0),
      MakeFile("a.csv", RawColumns \ {"VWAP"}, SessionRows, 0) }

\* files the pipeline is run on: every length up to MaxRows, whole hundreds of
\* rows up to MaxHundreds, and short files whose Trades cells are all missing
PipeFiles ==
    { MakeFile("a.csv", RawColumns, rows, s) :
        rows \in (0..MaxRows) \cup {100 * h : h \in 1..MaxHundreds}, s \in 0..MaxSeed }
    \cup { AllMissing("a.csv", rows) : rows \in 1..SessionRows }

\* the bytes of a file, apart from its name
Content(f) == [rows |-> f.rows, data |-> f.data]

----------------------------------------------------------------------------
(* One run of the script                                                    *)

\* a cache keyed by the file name alone
CacheKeyByName(file) == [name |-> file.name]

\* @st.cache_data: the key is the hash of the argument, for an uploaded file
\* its name and bytes; a return value is stored, an exception is not
CacheKey(file) == file

\* load_data(uploaded_file) through the cache: [ok, df, cache, calls]
cached_load_data(file, c, n) ==
    The({ IF k \in DOMAIN c THEN [ok |-> TRUE, df |-> c[k], cache |-> c, calls |-> n]
          ELSE The({ [ok |-> r.ok,
                      df |-> IF r.ok THEN r.df ELSE NoTable,
                      cache |-> IF r.ok THEN (k :> r.df) @@ c ELSE c,
                      calls |-> (k :> (IF k \in DOMAIN n THEN n[k] ELSE 0) + 1) @@ n]
                     : r \in {load_data(file)} })
          : k \in {CacheKey(file)} })

\* Elements of a section in page order, each with the columns it reads.
EdaItems ==
    << <<"eda:header", {}>>, <<"eda:head", {}>>, <<"eda:shape", {}>>,
       <<"eda:missing", {}>>, <<"eda:dtypes", {}>>,
       <<"eda:describe", {"Open", "High", "Low", "Close", "Volume"}>> >>

VisualItems ==
    << <<"vis:header", {}>>,
       <<"vis:histograms", {"Open", "High", "Low", "Close", "Volume"}>>,
       <<"vis:prices", {"Date", "Open", "High", "Low", "Close"}>>,
       <<"vis:volume", {"Date", "Volume"}>>,
       <<"vis:moving_averages", {"Date", "Close", "MA5", "MA20", "MA50"}>>,
       <<"vis:return_histograms", {"Daily_Return", "Volume_Change"}>>,
       <<"vis:heatmap", {"Open", "High", "Low", "Close", "VWAP", "Volume",
                         "Daily_Return", "MA5", "MA20", "MA50", "Volume_Change",
                         "High_Low_Difference"}>>,
       <<"vis:volatility", {"Date", "Rolling_Volatility_20"}>>,
       <<"vis:scatter", {"Volume_Change", "Daily_Return"}>>,
       <<"vis:monthly_returns", {"Month", "Daily_Return"}>> >>

MetricItems ==
    << <<"metrics:header", {}>>, <<"metrics:avg_return", {"Daily_Return"}>>,
       <<"metrics:volatility", {"Daily_Return"}>>,
       <<"metrics:avg_volume", {"Volume"}>> >>

\* the items rendered in order until one reads a column the table lacks
\* (a KeyError, which ends the run): [page, ok]
RECURSIVE RenderItems(_, _, _)
RenderItems(items, t, out) ==
    IF items = <<>> THEN [page |-> out, ok |-> TRUE]
    ELSE IF ~(Head(items)[2] \subseteq DOMAIN t)
         THEN [page |-> Append(out, "exception"), ok |-> FALSE]
         ELSE RenderItems(Tail(items), t, Append(out, Head(items)[1]))

\* the items of the page body below the title, given the three checkboxes
BodyItems(eda, vis, met) ==
    (IF eda THEN EdaItems ELSE <<>>) \o (IF vis THEN VisualItems ELSE <<>>)
        \o (IF met THEN MetricItems ELSE <<>>)

\* lines 49-146: the title, then the sections the checkboxes select
RenderDashboard(t, eda, vis, met) ==
    RenderItems(BodyItems(eda, vis, met), t, <<"title">>).page

\* the title rendered above the if, so that it precedes the prompt too
RenderPromptUnderTitle == <<"title", "prompt">>

\* line 149: st.warning("Please upload a CSV file to begin.")
RenderPrompt == <<"prompt">>

\* an uncaught exception of load_data ends the run; Streamlit shows it
RenderException == <<"exception">>

\* the whole script, lines 22-149: [page, df, cache, calls]
Script(file, eda, vis, met, c, n) ==
    IF file # NoFile
    THEN The({ IF ~r.ok
               THEN [page |-> RenderException, df |-> NoTable,
                     cache |-> r.cache, calls |-> r.calls]
               ELSE [page |-> RenderDashboard(r.df, eda, vis, met),
                     df |-> r.df, cache |-> r.cache, calls |-> r.calls]
               : r \in {cached_load_data(file, c, n)} })
    ELSE [page |-> RenderPrompt, df |-> NoTable, cache |-> c, calls |-> n]

\* a rerun of the script with the given widget values
Rerun(file, eda, vis, met) ==
    \E r \in {Script(file, eda, vis, met, cache, calls)} :
        /\ \A k \in DOMAIN r.calls : r.calls[k] <= MaxCalls
        /\ uploaded_file' = file
        /\ show_eda' = eda
        /\ show_visuals' = vis
        /\ show_metrics' = met
        /\ page' = r.page
        /\ df' = r.df
        /\ cache' = r.cache
        /\ calls' = r.calls

----------------------------------------------------------------------------
(* The session                                                              *)

\* the first run of a session: nothing uploaded, the checkboxes at their defaults
Init ==
    /\ uploaded_file = NoFile
    /\ show_eda = TRUE
    /\ show_visuals = TRUE
    /\ show_metrics = TRUE
    /\ cache = <<>>
    /\ calls = <<>>
    /\ page = RenderPrompt
    /\ df = NoTable

Upload(f) == Rerun(f, show_eda, show_visuals, show_metrics)

RemoveFile ==
    /\ uploaded_file # NoFile
    /\ Rerun(NoFile, show_eda, show_visuals, show_metrics)

ToggleEda == Rerun(uploaded_file, ~show_eda, show_visuals, show_metrics)

ToggleVisuals == Rerun(uploaded_file, show_eda, ~show_visuals, show_metrics)

ToggleMetrics == Rerun(uploaded_file, show_eda, show_visuals, ~show_metrics)

Next ==
    \/ \E f \in SessionFiles : Upload(f)
    \/ RemoveFile
    \/ ToggleEda
    \/ ToggleVisuals
    \/ ToggleMetrics

Spec == Init /\ [][Next]_vars

\* The pipeline as a function of its input: a file has just been uploaded in a
\* fresh session and the script has not yet run on it ...
InitPipe ==
    /\ uploaded_file \in PipeFiles
    /\ show_eda = TRUE
    /\ show_visuals = TRUE
    /\ show_metrics = TRUE
    /\ cache = <<>>
    /\ calls = <<>>
    /\ page = <<>>
    /\ df = NoTable

\* ... and then runs
FirstRun ==
    /\ page = <<>>
    /\ Rerun(uploaded_file, show_eda, show_visuals, show_metrics)

NextPipe == FirstRun

SpecPipe == InitPipe /\ [][NextPipe]_vars

----------------------------------------------------------------------------
(* Vocabulary of the properties                                             *)

\* load_data returned a table in the last run
Loaded == df # NoTable

\* the elements of a section
Names(items) == {items[i][1] : i \in DOMAIN items}
Shown(items) == Names(items) \subseteq Range(page)
Hidden(items) == Names(items) \cap Range(page) = {}
DashboardElements ==
    {"title"} \cup Names(EdaItems) \cup Names(VisualItems) \cup Names(MetricItems)

\* position in the page of an element that is on it
PosOf(e) == CHOOSE i \in DOMAIN page : page[i] = e

\* the uploaded CSV has no Trades column
LacksTrades(f) == f # NoFile /\ ~("Trades" \in DOMAIN f.data)

\* total executions of the body of load_data on files with the bytes of k
RECURSIVE SumCalls(_)
SumCalls(ks) ==
    IF ks = {} THEN 0
    ELSE LET k == CHOOSE x \in ks : TRUE IN calls[k] + SumCalls(ks \ {k})
CallsOnContent(k) == SumCalls({x \in DOMAIN calls : Content(x) = Content(k)})

\* positions (1-indexed) of the input rows whose Trades cell is present
Kept(f) == {i \in 1..f.rows : ~IsNaN(f.data["Trades"][i])}

\* position in the input file of row j of the loaded table
Origin(j) == df["index"][j] + 1

\* Volume of row j of the loaded table before clipping
RawVolume(j) == uploaded_file.data["Volume"][Origin(j)]
RawVolumes == [j \in 1..NRows(df) |-> RawVolume(j)]

\* the k-th smallest (k = 1 is the minimum) of the values of a
KthSmallest(a, k) ==
    CHOOSE v \in Range(a) :
        /\ Cardinality({i \in DOMAIN a : a[i] < v}) < k
        /\ k <= Cardinality({i \in DOMAIN a : a[i] <= v})

\* the p-th percentile of a by nearest rank: the value of rank ceil(p * n / 100)
Percentile(a, p) == KthSmallest(a, (p * Len(a) + 99) \div 100)

\* sum of the integers s[lo..hi]
RECURSIVE SumInt(_, _, _)
SumInt(s, lo, hi) ==
    IF lo > hi THEN 0
    ELSE IF lo = hi THEN s[lo]
    ELSE LET mid == (lo + hi) \div 2 IN SumInt(s, lo, mid) + SumInt(s, mid + 1, hi)

\* the rational x equals the quotient of the integers num / den (den > 0)
EqualsQuotient(x, num, den) == IsFinite(x) /\ x.n * den = x.d * num

----------------------------------------------------------------------------
(* C1 *)

\* C1: whenever the uploaded CSV lacks the Trades column, whatever the three
\* checkboxes are, load_data has failed in that run: no table is produced or
\* cached, and no dashboard element (title, EDA, visualizations, key metrics)
\* is on the page.
C1_MissingTradesRendersNothing ==
    LacksTrades(uploaded_file) =>
        /\ df = NoTable
        /\ ~(CacheKey(uploaded_file) \in DOMAIN cache)
        /\ Range(page) \cap DashboardElements = {}
        /\ page = RenderException

C1_Witness ==
    /\ LacksTrades(uploaded_file)
    /\ ~show_eda /\ show_visuals /\ ~show_metrics
    /\ calls[CacheKey(uploaded_file)] >= 2
    /\ page = RenderException

----------------------------------------------------------------------------
(* C2 *)

\* C2: for every successfully loaded file, the EDA section is rendered iff
\* show_eda, the Visualizations section iff show_visuals and the Key Metrics
\* section iff show_metrics, each whatever the other two checkboxes are, and
\* the rendered sections appear in the order EDA, Visualizations, Key Metrics.
C2_TogglesGateSections ==
    Loaded =>
        /\ IF show_eda THEN Shown(EdaItems) ELSE Hidden(EdaItems)
        /\ IF show_visuals THEN Shown(VisualItems) ELSE Hidden(VisualItems)
        /\ IF show_metrics THEN Shown(MetricItems) ELSE Hidden(MetricItems)
        /\ show_eda /\ show_visuals => PosOf("eda:describe") < PosOf("vis:header")
        /\ show_visuals /\ show_metrics =>
               PosOf("vis:monthly_returns") < PosOf("metrics:header")
        /\ show_eda /\ show_metrics => PosOf("eda:describe") < PosOf("metrics:header")

----------------------------------------------------------------------------
(* C3 *)

\* C3 as stated: the body of load_data is executed at most once per distinct
\* uploaded file content.
C3_OncePerContent ==
    \A k \in DOMAIN calls : CallsOnContent(k) <= 1

\* C3 amended: the body of load_data is executed at most once per distinct
\* uploaded file (name and content) whose load succeeds; a re-render with the
\* same, already loaded file does not execute it, a re-render with a file that
\* is not cached (a new name or content, or a file whose load failed) executes
\* it once more, and the table shown is the one derived from the file now
\* uploaded.
C3_OncePerLoadedFile ==
    /\ [](/\ \A k \in DOMAIN cache : k \in DOMAIN calls /\ calls[k] = 1
          /\ Loaded =>
                /\ CacheKey(uploaded_file) \in DOMAIN cache
                /\ df = load_data(uploaded_file).df
          /\ (uploaded_file # NoFile /\ ~Loaded) =>
                /\ ~(CacheKey(uploaded_file) \in DOMAIN cache)
                /\ ~load_data(uploaded_file).ok)
    /\ [][LET k == CacheKey(uploaded_file') IN
          /\ (uploaded_file' = uploaded_file /\ Loaded) => calls' = calls
          /\ (uploaded_file' # NoFile /\ ~(k \in DOMAIN cache)) =>
                /\ k \in DOMAIN calls'
                /\ calls'[k] = (IF k \in DOMAIN calls THEN calls[k] ELSE 0) + 1
                /\ \A x \in DOMAIN calls : x # k => calls'[x] = calls[x]]_vars

C3_Witness ==
    /\ Loaded
    /\ ~show_eda /\ ~show_metrics
    /\ Cardinality(DOMAIN cache) >= 3
    /\ \E k \in DOMAIN cache : k # uploaded_file /\ Content(k) = Content(uploaded_file)
    /\ \E k \in DOMAIN calls : calls[k] >= 2

----------------------------------------------------------------------------
(* C9 *)

\* C9: in every run without an uploaded file the prompt, and nothing else, is
\* rendered and load_data is not called, whatever the checkboxes are; in every
\* run with an uploaded file the prompt is not rendered; the prompt and a
\* dashboard element are never on the same page.
C9_PromptIffNoFile ==
    /\ [](/\ uploaded_file = NoFile => page = <<"prompt">> /\ df = NoTable
          /\ uploaded_file # NoFile => ~("prompt" \in Range(page))
          /\ ~("prompt" \in Range(page) /\ Range(page) \cap DashboardElements # {}))
    /\ [][uploaded_file' = NoFile => calls' = calls /\ cache' = cache]_vars

C9_Witness ==
    /\ uploaded_file = NoFile
    /\ ~show_eda /\ ~show_visuals /\ show_metrics
    /\ DOMAIN cache # {}
    /\ page = <<"prompt">>

----------------------------------------------------------------------------
(* C4 *)

\* C4: the rows of a table returned by load_data are exactly the input rows
\* whose Trades value is present, in their original relative order: there are
\* as many as such input rows, never more than the input has, each carries the
\* cells of its input row, and every column of the table, raw or derived, has
\* that many rows.
C4_RowsAreThePresentTradesRows ==
    Loaded =>
        LET f == uploaded_file
            n == NRows(df)
        IN  /\ n = Cardinality(Kept(f))
            /\ n <= f.rows
            /\ \A j \in 1..n : Origin(j) \in Kept(f)
            /\ \A j \in 2..n : Origin(j - 1) < Origin(j)
            /\ \A j \in 1..n :
                 \A c \in {"Open", "High", "Low", "Close", "Trades", "VWAP"} :
                    df[c][j] = f.data[c][Origin(j)]
            /\ \A c \in DOMAIN df : Len(df[c]) = n

C4_Witness ==
    /\ Loaded
    /\ NRows(df) < uploaded_file.rows
    /\ NRows(df) >= MAWindow50
    /\ Origin(2) = 3

----------------------------------------------------------------------------
(* C5 *)

\* the value winsorize pulls the low tail up to: rank floor(n / 100) + 1
LowBoundary(a) == KthSmallest(a, (Len(a) \div 100) + 1)

\* C5 as stated: every Volume of the returned table lies in [P1, P99] of the
\* Volume values before clipping; a value below P1 has become P1, a value
\* above P99 has become P99, a value inside the interval is unchanged, and no
\* row is removed.
C5_ClippedToPercentiles ==
    Loaded =>
        LET p1  == Percentile(RawVolumes, 1)
            p99 == Percentile(RawVolumes, 99)
        IN  /\ NRows(df) = Cardinality(Kept(uploaded_file))
            /\ \A j \in 1..NRows(df) :
                 /\ p1 <= df["Volume"][j] /\ df["Volume"][j] <= p99
                 /\ RawVolume(j) < p1 => df["Volume"][j] = p1
                 /\ RawVolume(j) > p99 => df["Volume"][j] = p99
                 /\ (p1 <= RawVolume(j) /\ RawVolume(j) <= p99) =>
                        df["Volume"][j] = RawVolume(j)

\* C5 amended: every Volume of the returned table lies in [P1, P99] of the
\* Volume values before clipping, and more narrowly in [L, P99], where L is the
\* value of rank floor(n / 100) + 1 (L >= P1, and L is P1 unless n is a
\* multiple of 100); a value below L has become L, a value above P99 has become
\* P99, a value in [L, P99] is unchanged, and no row is removed.
C5_ClippedToBoundaries ==
    Loaded =>
        LET p1  == Percentile(RawVolumes, 1)
            p99 == Percentile(RawVolumes, 99)
            lo  == LowBoundary(RawVolumes)
        IN  /\ NRows(df) = Cardinality(Kept(uploaded_file))
            /\ p1 <= lo
            /\ (NRows(df) % 100 # 0) => lo = p1
            /\ \A j \in 1..NRows(df) :
                 /\ p1 <= df["Volume"][j] /\ df["Volume"][j] <= p99
                 /\ lo <= df["Volume"][j]
                 /\ RawVolume(j) < lo => df["Volume"][j] = lo
                 /\ RawVolume(j) > p99 => df["Volume"][j] = p99
                 /\ (lo <= RawVolume(j) /\ RawVolume(j) <= p99) =>
                        df["Volume"][j] = RawVolume(j)

C5_Witness ==
    /\ Loaded
    /\ Percentile(RawVolumes, 1) < LowBoundary(RawVolumes)
    /\ \E j \in 1..NRows(df) : RawVolume(j) < df["Volume"][j]
    /\ \E j \in 1..NRows(df) : RawVolume(j) > df["Volume"][j]
    /\ \E j \in 1..NRows(df) : RawVolume(j) = df["Volume"][j]

----------------------------------------------------------------------------
(* C6 *)

\* row p of the file holds an extreme outlier: 500 times any other Volume
IsOutlier(f, p) ==
    \A q \in 1..f.rows : q # p => f.data["Volume"][p] >= 500 * f.data["Volume"][q]

\* C6: for a 200-row input without missing Trades whose Volume column holds a
\* single extreme outlier, the Volume of the outlier's row in the returned
\* table is the 99th percentile of the original Volume values and not the raw
\* outlier.
C6_OutlierBecomesP99 ==
    (Loaded /\ uploaded_file.rows = 200 /\ Kept(uploaded_file) = 1..200) =>
        \A p \in 1..200 :
            IsOutlier(uploaded_file, p) =>
                /\ df["Volume"][p] = Percentile(uploaded_file.data["Volume"], 99)
                /\ df["Volume"][p] # uploaded_file.data["Volume"][p]
                /\ df["Volume"][p] < uploaded_file.data["Volume"][p]

C6_Witness ==
    /\ Loaded /\ uploaded_file.rows = 200 /\ Kept(uploaded_file) = 1..200
    /\ \E p \in 1..200 :
          /\ IsOutlier(uploaded_file, p)
          /\ uploaded_file.data["Volume"][p] = 1000 * 1105
          /\ df["Volume"][p] = 1209

----------------------------------------------------------------------------
(* C7 *)

MAColumn(w) == CASE w = MAWindow5 -> "MA5" [] w = MAWindow20 -> "MA20"
                 [] w = MAWindow50 -> "MA50"

\* C7: for each window w of 5, 20, 50 and every row i (0-indexed) of the
\* returned table, MAw is undefined when i < w - 1 and otherwise is the
\* arithmetic mean of Close over rows i-w+1 .. i of that table.
C7_MovingAverages ==
    Loaded =>
        \A w \in {MAWindow5, MAWindow20, MAWindow50} :
            \A j \in 1..NRows(df) :
                IF j - 1 < w - 1 THEN IsNaN(df[MAColumn(w)][j])
                ELSE EqualsQuotient(df[MAColumn(w)][j],
                                    SumInt(df["Close"], j - w + 1, j), w)

C7_Witness ==
    /\ Loaded
    /\ NRows(df) > MAWindow50
    /\ NRows(df) < uploaded_file.rows
    /\ IsNaN(df["MA50"][MAWindow50 - 1])
    /\ IsFinite(df["MA50"][MAWindow50])
    /\ df["MA5"][MAWindow50] # df["MA20"][MAWindow50]
    /\ df["MA20"][MAWindow50] # df["MA50"][MAWindow50]

----------------------------------------------------------------------------
(* C8 *)

\* C8: Daily_Return of row 0 is undefined, and for every row i >= 1 it is
\* Close[i] / Close[i-1] - 1, i-1 being the preceding row of the returned
\* table: the previous retained input row, also across dropped rows.
C8_DailyReturn ==
    Loaded =>
        /\ IsNaN(df["Daily_Return"][1])
        /\ \A j \in 2..NRows(df) :
             LET cur  == uploaded_file.data["Close"][Origin(j)]
                 prev == uploaded_file.data["Close"][Origin(j - 1)]
             IN  /\ cur = df["Close"][j] /\ prev = df["Close"][j - 1]
                 /\ EqualsQuotient(df["Daily_Return"][j], cur - prev, prev)

C8_Witness ==
    /\ Loaded
    /\ \E j \in 2..NRows(df) :
          /\ Origin(j) = Origin(j - 1) + 2
          /\ uploaded_file.data["Close"][Origin(j) - 1] # df["Close"][j - 1]
          /\ df["Daily_Return"][j] = [n |-> 3, d |-> 1]

----------------------------------------------------------------------------
(* C10 *)

\* sum of the squares of the rationals s[lo..hi]
RECURSIVE RSumSq(_, _, _)
RSumSq(s, lo, hi) ==
    IF lo > hi THEN Rat(0)
    ELSE IF lo = hi THEN RMul(s[lo], s[lo])
    ELSE LET mid == (lo + hi) \div 2
         IN  RAdd(RSumSq(s, lo, mid), RSumSq(s, mid + 1, hi))

\* C10: Rolling_Volatility_20 and Rolling_Mean_20 are undefined for every row
\* i <= 19 (0-indexed), one row more than MA20, which is defined at row 19,
\* and defined for every row i >= 20; there they are the (sample) standard
\* deviation and the mean of Daily_Return over rows i-19 .. i:
\* 20 * mean = sum x and 20 * 19 * std^2 = 20 * sum x^2 - (sum x)^2.
C10_RollingVolatility ==
    Loaded =>
        LET w == VolWindow
            x == df["Daily_Return"]
        IN  \A j \in 1..NRows(df) :
               IF j - 1 <= w - 1
               THEN /\ IsNaN(df["Rolling_Volatility_20"][j].radicand)
                    /\ IsNaN(df["Rolling_Mean_20"][j])
                    /\ (j - 1 = w - 1) => IsFinite(df["MA20"][j])
               ELSE LET sum == RSum(x, j - w + 1, j)
                        sq  == RSumSq(x, j - w + 1, j)
                        var == df["Rolling_Volatility_20"][j].radicand
                    IN  /\ IsFinite(var) /\ var.n >= 0
                        /\ IsFinite(df["Rolling_Mean_20"][j])
                        /\ RMul(df["Rolling_Mean_20"][j], Rat(w)) = sum
                        /\ RMul(var, Rat(w * (w - 1))) =
                               RSub(RMul(Rat(w), sq), RMul(sum, sum))

C10_Witness ==
    /\ Loaded
    /\ NRows(df) > VolWindow + 1
    /\ IsNaN(df["Rolling_Mean_20"][VolWindow])
    /\ IsFinite(df["MA20"][VolWindow])
    /\ IsFinite(df["Rolling_Mean_20"][VolWindow + 1])
    /\ df["Rolling_Volatility_20"][VolWindow + 1].radicand.n > 0
    /\ df["Rolling_Mean_20"][VolWindow + 1] # df["Rolling_Mean_20"][VolWindow + 2]

====
